---- MODULE Spec2Model ----
(***************************************************************************)
(* Credential and session-authorization subsystem of melikshop-backend:    *)
(* the user store, the bearer-token codec, authMiddleware/adminMiddleware, *)
(* the /api/auth flows and the admin user-management routes.               *)
(*                                                                         *)
(* Time is counted in hours, with an offset in five-minute slots for the   *)
(* rate limiters.  A request is one atomic action, the sequential          *)
(* composition of its middlewares and its route handler, except register,  *)
(* which also runs as two steps around its await of the store.  Actions    *)
(* named ...From are requests of an origin whose hits the rate limiters    *)
(* accumulate; the others are the first request of an origin of its own.   *)
(***************************************************************************)
EXTENDS Integers, Sequences, FiniteSets, TLC

\* ------------------------------------------------------------- bounds
MaxUsers == 2
MaxTime == 1
MaxRand == 2
MaxSlot == 4
MaxHits == 12
MaxRequests == 2

\* ---------------------------------------------------- program constants
\* expiresIn '7d', '30d' and the reset window of 3600000 ms, in hours
AccessTTL == 168
RefreshTTL == 720
ResetTTL == 1

\* five-minute slots: an hour is twelve of them, windowMs = 15 * 60 * 1000
\* is three; max: 10 of authLimiter and max: 100 of the limiter of /api/
SlotsPerHour == 12
WindowSlots == 3
AuthMax == 10
ApiMax == 100

Emails == {"admin@x.com", "a@x.com"}
Passwords == {"Abcdef1", "Xyzabc2"}
Roles == {"user", "admin"}
Origins == {"ip1", "ip2"}
\* the origin whose recovery requests are followed
Callers == {"ip1"}
Limiters == {"limiter", "authLimiter"}
Requests == 1..MaxRequests

VARIABLES users, nextId, nextRand, now, last, slot, hits, pending, env, db

vars == <<users, nextId, nextRand, now, last, slot, hits, pending, env, db>>

\* process.env and the state of the database connection
process == <<env, db>>

\* the offset below the hour, the rate limiters' stores, the requests in
\* flight and the process
others == <<slot, hits, pending, process>>

\* ------------------------------------------------------------- hasher
NoHash == [alg |-> "none", pw |-> ""]

\* pre-save hook: the stored password is a digest of the plaintext
hashPassword(plain) == [alg |-> "bcrypt", pw |-> plain]

\* user.comparePassword(candidate): a missing digest is a malformed digest
comparePassword(doc, candidate) ==
    IF doc.password = NoHash THEN "throw"
    ELSE IF doc.password.pw = candidate THEN "match" ELSE "mismatch"

\* -------------------------------------------------------- token codec
NoToken == [kind |-> "none", userId |-> 0, type |-> "none", exp |-> 0, signed |-> FALSE]
Malformed == [kind |-> "malformed", userId |-> 0, type |-> "none", exp |-> 0, signed |-> FALSE]

\* jwt.sign(payload, secret, {expiresIn})
jwtSign(userId, type, expiresIn) ==
    [kind |-> "jwt", userId |-> userId, type |-> type, exp |-> now + expiresIn, signed |-> TRUE]

\* a generateToken that signs for one and the same subject
generateTokenFixedSubject(userId) == jwtSign(1, "none", AccessTTL)

\* generateToken(userId): the token, or NoToken when it throws
\* 'JWT_SECRET is not defined'
generateToken(userId) ==
    IF env.JWT_SECRET THEN jwtSign(userId, "none", AccessTTL) ELSE NoToken

generateRefreshToken(userId) ==
    IF env.JWT_SECRET THEN jwtSign(userId, "refresh", RefreshTTL) ELSE NoToken

\* jwt.verify(token, secret): the decoded payload, or the error it throws.
\* TokenExpiredError is a subclass of JsonWebTokenError.
jwtVerify(token) ==
    IF ~env.JWT_SECRET \/ token.kind # "jwt" \/ ~token.signed
    THEN [ok |-> FALSE, error |-> "JsonWebTokenError", userId |-> 0, type |-> "none"]
    ELSE IF now >= token.exp
    THEN [ok |-> FALSE, error |-> "TokenExpiredError", userId |-> 0, type |-> "none"]
    ELSE [ok |-> TRUE, error |-> "none", userId |-> token.userId, type |-> token.type]

\* verifyToken(token): the subject, or 0 when it throws 'Invalid token'
verifyToken(token) ==
    LET decoded == jwtVerify(token)
    IN  IF decoded.ok THEN decoded.userId ELSE 0

\* the message of the error verifyToken throws: its catch replaces whatever
\* jwt.verify threw by new Error('Invalid token')
verifyTokenError(token) ==
    IF jwtVerify(token).ok THEN "" ELSE "Invalid token"

\* a verifyRefreshToken that does not look at the payload's type
verifyRefreshTokenNoType(token) ==
    LET decoded == jwtVerify(token)
    IN  IF decoded.ok THEN decoded.userId ELSE 0

\* verifyRefreshToken(token): the subject, or 0 when it throws
verifyRefreshToken(token) ==
    LET decoded == jwtVerify(token)
    IN  IF decoded.ok /\ decoded.type = "refresh" THEN decoded.userId ELSE 0

\* Bearer credentials a caller may present: none, garbage, a forged token,
\* and for each account a signed access token expiring at hour 1, one
\* issued at hour 0 and a signed refresh token issued at hour 0.
Forged == [kind |-> "jwt", userId |-> 1, type |-> "none", exp |-> AccessTTL, signed |-> FALSE]

Bearers ==
    {NoToken, Malformed, Forged} \cup
    { [kind |-> "jwt", userId |-> u, type |-> "none", exp |-> e, signed |-> TRUE] :
        u \in 1..MaxUsers, e \in {1, AccessTTL} } \cup
    { [kind |-> "jwt", userId |-> u, type |-> "refresh", exp |-> RefreshTTL, signed |-> TRUE] :
        u \in 1..MaxUsers }

\* The bearer tokens a client holds after login at hour 0, and none
Sessions ==
    {NoToken} \cup
    { [kind |-> "jwt", userId |-> u, type |-> "none", exp |-> AccessTTL, signed |-> TRUE] :
        u \in 1..MaxUsers }

\* -------------------------------------------------------------- store
\* User.findById(id): the id, or 0 for null
findById(id) == IF id \in DOMAIN users THEN id ELSE 0

\* User.findOne({email})
findOneByEmail(email) ==
    IF \E u \in DOMAIN users : users[u].email = email
    THEN CHOOSE u \in DOMAIN users : users[u].email = email
    ELSE 0

\* .select('-password'): the loaded document carries no password
selectNoPassword(doc) == [doc EXCEPT !.password = NoHash]

\* ---------------------------------------------------------- responses
Response(status, message) == [status |-> status, message |-> message]

\* req.body: the top-level keys it carries (set), the update operators it
\* carries as pairs of operator and path, and the values of the keys
NoBody ==
    [set |-> {}, operators |-> {}, role |-> "user", isActive |-> TRUE,
     isEmailVerified |-> FALSE, passwordResetToken |-> 0]

NoReq ==
    [op |-> "init", token |-> NoToken, email |-> "", password |-> "", newPassword |-> "",
     actionToken |-> 0, id |-> 0, body |-> NoBody,
     res |-> <<>>, user |-> 0, ran |-> FALSE, issued |-> NoToken,
     origin |-> "", mail |-> "none"]

\* the response the client receives: the first one sent
Status(l) == IF l.res = <<>> THEN 0 ELSE l.res[1].status
Message(l) == IF l.res = <<>> THEN "" ELSE l.res[1].message

\* ------------------------------------------------------ rate limiters
\* Date.now(), in slots
clock == now * SlotsPerHour + slot

\* a key the store holds no record for
NoHits == [totalHits |-> 0, resetTime |-> 0]

\* a store that reads the count of the key and does not count the hit
incrementUncounted(store, key) ==
    LET client == store[key]
        current == IF client.resetTime <= clock
                   THEN [totalHits |-> 0, resetTime |-> clock + WindowSlots]
                   ELSE client
    IN  [store EXCEPT ![key] = current]

\* MemoryStore.increment(key): a record whose window is over starts anew
\* with a window of windowMs from now, then the hit is counted
increment(store, key) ==
    LET client == store[key]
        current == IF client.resetTime <= clock
                   THEN [totalHits |-> 0, resetTime |-> clock + WindowSlots]
                   ELSE client
    IN  [store EXCEPT ![key] = [current EXCEPT !.totalHits = @ + 1]]

\* rateLimit({windowMs, max, message}) on a request of origin: the store
\* with the request counted, and whether it is answered 429 with message
rateLimit(name, max, message, origin) ==
    LET store == increment(hits[name], origin)
    IN  [store |-> store,
         limited |-> store[origin].totalHits > max,
         res |-> <<Response(429, message)>>]

\* app.use('/api/', limiter)
limiter(origin) ==
    rateLimit("limiter", ApiMax,
              "Too many requests from this IP, please try again later.", origin)

\* an authLimiter whose ceiling is one lower
authLimiterCeilingNine(origin) ==
    rateLimit("authLimiter", AuthMax - 1,
              "Too many attempts, please try again later.", origin)

\* const authLimiter = rateLimit({...}), the first middleware of /login
authLimiter(origin) ==
    rateLimit("authLimiter", AuthMax,
              "Too many attempts, please try again later.", origin)

\* --------------------------------------------------------- middleware
NoDoc ==
    [email |-> "", password |-> NoHash, role |-> "none", isActive |-> FALSE,
     isEmailVerified |-> FALSE, emailVerificationToken |-> 0,
     passwordResetToken |-> 0, passwordResetExpires |-> 0]

\* req.user: the id and the document loaded by the middleware
NoUser == [id |-> 0, doc |-> NoDoc]

NewReq(token) == [token |-> token, user |-> NoUser]

\* error instanceof jwt.<class>: TokenExpiredError extends JsonWebTokenError
instanceOf(error, class) ==
    \/ error = class
    \/ (error = "TokenExpiredError" /\ class = "JsonWebTokenError")

\* the catch block of authMiddleware: the first instanceof test that holds
catchAuthError(error) ==
    IF instanceOf(error, "JsonWebTokenError")
    THEN Response(401, "Invalid token.")
    ELSE IF instanceOf(error, "TokenExpiredError")
    THEN Response(401, "Token expired.")
    ELSE Response(500, "Internal server error.")

\* authMiddleware without the isActive check
authMiddlewareNoActiveCheck(req) ==
    LET token == req.token
        decoded == jwtVerify(token)
        user == findById(decoded.userId)
    IN  IF token = NoToken
        THEN [user |-> req.user, next |-> FALSE,
              res |-> <<Response(401, "Access denied. No token provided.")>>]
        ELSE IF ~decoded.ok
        THEN [user |-> req.user, next |-> FALSE,
              res |-> <<catchAuthError(decoded.error)>>]
        ELSE IF user = 0
        THEN [user |-> req.user, next |-> FALSE,
              res |-> <<Response(401, "Invalid token. User not found.")>>]
        ELSE [user |-> [id |-> user, doc |-> selectNoPassword(users[user])],
              next |-> TRUE, res |-> <<>>]

\* authMiddleware(req, res, next): req is [token, user]; the result is the
\* request's identity afterwards, the responses sent and whether next ran.
authMiddleware(req) ==
    LET token == req.token
        decoded == jwtVerify(token)
        user == findById(decoded.userId)
    IN  IF token = NoToken
        THEN [user |-> req.user, next |-> FALSE,
              res |-> <<Response(401, "Access denied. No token provided.")>>]
        ELSE IF ~decoded.ok
        THEN [user |-> req.user, next |-> FALSE,
              res |-> <<catchAuthError(decoded.error)>>]
        ELSE IF user = 0
        THEN [user |-> req.user, next |-> FALSE,
              res |-> <<Response(401, "Invalid token. User not found.")>>]
        ELSE IF ~users[user].isActive
        THEN [user |-> req.user, next |-> FALSE,
              res |-> <<Response(401, "Account is deactivated.")>>]
        ELSE [user |-> [id |-> user, doc |-> selectNoPassword(users[user])],
              next |-> TRUE, res |-> <<>>]

\* adminMiddleware that rejects only a request without an identity
adminMiddlewareAnyRole(req) ==
    LET auth == authMiddleware(req)
    IN  IF auth.user.id = 0
        THEN [user |-> auth.user, next |-> FALSE,
              res |-> auth.res \o
                      <<Response(403, "Access denied. Admin privileges required."),
                        Response(500, "Internal server error.")>>]
        ELSE [user |-> auth.user, next |-> TRUE, res |-> auth.res]

\* adminMiddleware(req, res, next): authMiddleware with a next that only
\* forwards errors, then the role check on req.user.  A response attempted
\* after one was sent throws, which the catch answers with a 500 attempt.
adminMiddleware(req) ==
    LET auth == authMiddleware(req)
    IN  IF auth.user.doc.role # "admin"
        THEN [user |-> auth.user, next |-> FALSE,
              res |-> IF auth.res = <<>>
                      THEN <<Response(403, "Access denied. Admin privileges required.")>>
                      ELSE auth.res \o
                           <<Response(403, "Access denied. Admin privileges required."),
                             Response(500, "Internal server error.")>>]
        ELSE [user |-> auth.user, next |-> TRUE, res |-> auth.res]

\* an optionalAuthMiddleware that attaches every record it finds
optionalAuthMiddlewareNoActiveCheck(req) ==
    LET token == req.token
        decoded == jwtVerify(token)
        user == findById(decoded.userId)
    IN  IF token = NoToken
        THEN [user |-> req.user, next |-> 1, res |-> <<>>]
        ELSE IF ~decoded.ok
        THEN [user |-> req.user, next |-> 1, res |-> <<>>]
        ELSE IF user # 0
        THEN [user |-> [id |-> user, doc |-> selectNoPassword(users[user])],
              next |-> 1, res |-> <<>>]
        ELSE [user |-> req.user, next |-> 1, res |-> <<>>]

\* optionalAuthMiddleware(req, res, next): the request's identity
\* afterwards, the number of calls of next and the responses it sent.  The
\* catch around jwt.verify and the lookup calls next as well.
optionalAuthMiddleware(req) ==
    LET token == req.token
        decoded == jwtVerify(token)
        user == findById(decoded.userId)
    IN  IF token = NoToken
        THEN [user |-> req.user, next |-> 1, res |-> <<>>]
        ELSE IF ~decoded.ok
        THEN [user |-> req.user, next |-> 1, res |-> <<>>]
        ELSE IF user # 0 /\ users[user].isActive
        THEN [user |-> [id |-> user, doc |-> selectNoPassword(users[user])],
              next |-> 1, res |-> <<>>]
        ELSE [user |-> req.user, next |-> 1, res |-> <<>>]

\* app.use('/api/users', authMiddleware, userRoutes) and then the route's
\* own adminMiddleware
usersRouteGuard(token) ==
    LET mount == authMiddleware(NewReq(token))
    IN  IF ~mount.next THEN mount
        ELSE adminMiddleware([token |-> token, user |-> mount.user])

\* ------------------------------------------------------------ actions
\* mongoose.connection.readyState 0 (disconnected) with isConnecting false
NotConnected == [readyState |-> 0, isConnecting |-> FALSE]

\* a slot for a request in flight that no request occupies
Idle ==
    [pc |-> "idle", op |-> "", email |-> "", password |-> "", mail |-> "none",
     token |-> NoToken, user |-> NoUser, actionToken |-> 0, id |-> 0,
     origin |-> "", totalHits |-> 0, resetTime |-> 0]

\* the seeded collection, no request in flight, no connection yet
InitStore ==
    /\ users = (1 :> [email |-> "admin@x.com", password |-> hashPassword("Abcdef1"),
                      role |-> "admin", isActive |-> TRUE, isEmailVerified |-> TRUE,
                      emailVerificationToken |-> 0,
                      passwordResetToken |-> 0, passwordResetExpires |-> 0])
    /\ nextId = 2
    /\ nextRand = 1
    /\ now = 0
    /\ last = NoReq
    /\ slot = 0
    /\ hits = [name \in Limiters |-> [origin \in Origins |-> NoHits]]
    /\ pending = [r \in Requests |-> Idle]
    /\ db = NotConnected

\* a process with JWT_SECRET and MONGODB_URI in its environment
Init ==
    /\ InitStore
    /\ env = [JWT_SECRET |-> TRUE, MONGODB_URI |-> TRUE]

\* a process with or without JWT_SECRET in its environment
InitSecret ==
    /\ InitStore
    /\ env \in {[JWT_SECRET |-> secret, MONGODB_URI |-> TRUE] : secret \in BOOLEAN}

\* a process with any of the two in its environment
InitEnv ==
    /\ InitStore
    /\ env \in [JWT_SECRET : BOOLEAN, MONGODB_URI : BOOLEAN]

Tick ==
    /\ now < MaxTime
    /\ now' = now + 1
    /\ last' = [NoReq EXCEPT !.op = "tick"]
    /\ UNCHANGED <<others, users, nextId, nextRand>>

\* five minutes pass within the hour
TickSlot ==
    /\ slot < MaxSlot
    /\ slot < SlotsPerHour - 1
    /\ slot' = slot + 1
    /\ last' = [NoReq EXCEPT !.op = "tick"]
    /\ UNCHANGED <<users, nextId, nextRand, now, hits, pending, process>>

\* GET /api/auth/me
GetMe ==
    \E token \in Bearers :
        LET auth == authMiddleware(NewReq(token))
        IN  /\ last' = [NoReq EXCEPT !.op = "me", !.token = token, !.user = auth.user.id,
                          !.ran = auth.next,
                          !.res = IF auth.next
                                  THEN <<Response(200, "")>> ELSE auth.res]
            /\ UNCHANGED <<others, users, nextId, nextRand, now>>

\* GET /api/products: optionalAuthMiddleware, then the handler once for
\* each call of next
GetProducts ==
    \E token \in Bearers :
        LET auth == optionalAuthMiddleware(NewReq(token))
        IN  /\ last' = [NoReq EXCEPT !.op = "products", !.token = token,
                          !.user = auth.user.id, !.ran = auth.next > 0,
                          !.res = auth.res \o
                                  [i \in 1..auth.next |-> Response(200, "")]]
            /\ UNCHANGED <<others, users, nextId, nextRand, now>>

\* verifyRefreshToken applied to a presented token
VerifyRefresh ==
    \E token \in Bearers :
        /\ last' = [NoReq EXCEPT !.op = "verify-refresh", !.token = token,
                                 !.user = verifyRefreshToken(token)]
        /\ UNCHANGED <<others, users, nextId, nextRand, now>>

\* ------------------------------------------------- /api/auth handlers
generateEmailVerificationToken == nextRand

generatePasswordResetToken == nextRand

\* Keys a request body may carry besides the ones a schema names
ExtraBodies ==
    {NoBody,
     [NoBody EXCEPT !.set = {"role"}, !.role = "admin"],
     [NoBody EXCEPT !.set = {"isActive"}, !.isActive = FALSE]}

\* validateBody(schema): the handler sees the parsed body, which holds the
\* schema's keys only; role, isActive and isEmailVerified are in no schema
validateBody(body) == NoBody

\* Object.assign(doc, updates) / findByIdAndUpdate(id, updates)
applyUpdates(doc, updates) ==
    [doc EXCEPT
        !.role = IF "role" \in updates.set THEN updates.role ELSE @,
        !.isActive = IF "isActive" \in updates.set THEN updates.isActive ELSE @,
        !.isEmailVerified =
            IF "isEmailVerified" \in updates.set THEN updates.isEmailVerified ELSE @]

\* delete updates.password; delete updates.emailVerificationToken;
\* delete updates.passwordResetToken; delete updates.passwordResetExpires
deleteSensitive(updates) ==
    [updates EXCEPT !.set = @ \ {"password", "emailVerificationToken",
                                 "passwordResetToken", "passwordResetExpires"}]

\* User.findByIdAndUpdate(id, updates, {new, runValidators}): top-level keys
\* are set, and the update operators of the body are applied as they are
findByIdAndUpdate(doc, updates) ==
    LET assigned == applyUpdates(doc, updates)
        sets(path) == path \in updates.set \/ <<"$set", path>> \in updates.operators
        unsets(path) == <<"$unset", path>> \in updates.operators
    IN  [assigned EXCEPT
            !.passwordResetToken =
                IF unsets("passwordResetToken") THEN 0
                ELSE IF sets("passwordResetToken") THEN updates.passwordResetToken
                ELSE @,
            !.passwordResetExpires =
                IF unsets("passwordResetExpires") THEN 0 ELSE @]

\* a register handler that hands the whole body to new User
registerFieldsWholeBody(body) == body

\* const { email, password, firstName, lastName, phone, address } = req.body:
\* what of the body's other keys reaches new User({...})
registerFields(body) == NoBody

\* new User({...}) with the schema defaults, hashed by the pre-save hook
NewUser(email, password, emailVerificationToken, fields) ==
    applyUpdates(
        [email |-> email, password |-> hashPassword(password),
         role |-> "user", isActive |-> TRUE, isEmailVerified |-> FALSE,
         emailVerificationToken |-> emailVerificationToken,
         passwordResetToken |-> 0, passwordResetExpires |-> 0],
        fields)

\* errors a handler may throw into asyncHandler's catch(next)
NoError == [name |-> "none", code |-> 0, field |-> "", message |-> ""]

ValidationError ==
    [NoError EXCEPT !.name = "ValidationError", !.message = "User validation failed"]

DuplicateKey(field) ==
    [NoError EXCEPT !.name = "MongoServerError", !.code = 11000, !.field = field,
                    !.message = "E11000 duplicate key error collection"]

CastError == [NoError EXCEPT !.name = "CastError", !.message = "Cast to ObjectId failed"]

WriteFailure ==
    [NoError EXCEPT !.name = "MongoNetworkError", !.message = "connection closed"]

SecretMissing == [NoError EXCEPT !.name = "Error", !.message = "JWT_SECRET is not defined"]

Errors ==
    {ValidationError, DuplicateKey("email"), CastError, WriteFailure,
     [NoError EXCEPT !.name = "JsonWebTokenError", !.message = "jwt malformed"],
     [NoError EXCEPT !.name = "TokenExpiredError", !.message = "jwt expired"]}

\* an errorHandler without the duplicate key case
errorHandlerNoDuplicateCase(error) ==
    IF error.name = "ValidationError"
    THEN Response(400, "Validation failed")
    ELSE IF error.name = "CastError"
    THEN Response(400, "Invalid ID format")
    ELSE IF error.name = "TokenExpiredError"
    THEN Response(401, "Token expired")
    ELSE IF error.name = "JsonWebTokenError"
    THEN Response(401, "Invalid token")
    ELSE Response(500, error.message)

\* errorHandler(error, req, res, next): the response it sends
errorHandler(error) ==
    IF error.name = "ValidationError"
    THEN Response(400, "Validation failed")
    ELSE IF error.code = 11000
    THEN Response(400, error.field \o " already exists")
    ELSE IF error.name = "CastError"
    THEN Response(400, "Invalid ID format")
    ELSE IF error.name = "TokenExpiredError"
    THEN Response(401, "Token expired")
    ELSE IF error.name = "JsonWebTokenError"
    THEN Response(401, "Invalid token")
    ELSE Response(500, error.message)

\* asyncHandler around a handler that calls generateToken before it answers:
\* the throw of generateToken reaches errorHandler, otherwise the handler's
\* own response is sent
tokenResponse(token, response) ==
    IF token = NoToken THEN errorHandler(SecretMissing) ELSE response

\* a register handler that lets a failed welcome mail fail the request
registerResponseMailFatal(mailOk) ==
    IF mailOk
    THEN Response(201,
            "User registered successfully. Please check your email to verify your account.")
    ELSE Response(500, "Failed to send welcome email")

\* try { await emailService.sendWelcomeEmail(...) } catch { console.error },
\* then res.status(201)
registerResponse(mailOk) ==
    Response(201,
        "User registered successfully. Please check your email to verify your account.")

\* POST /api/auth/register
Register ==
    \E email \in Emails, password \in Passwords, body \in ExtraBodies,
       mailOk \in BOOLEAN :
        LET existingUser == findOneByEmail(email)
            req == [NoReq EXCEPT !.op = "register", !.email = email,
                                 !.password = password, !.body = body]
        IN  IF existingUser # 0
            THEN /\ last' = [req EXCEPT !.res =
                        <<Response(400, "User with this email already exists")>>]
                 /\ UNCHANGED <<others, users, nextId, nextRand, now>>
            ELSE /\ nextId <= MaxUsers
                 /\ nextRand <= MaxRand
                 /\ users' = users @@
                        (nextId :> NewUser(email, password, generateEmailVerificationToken,
                                           registerFields(body)))
                 /\ nextId' = nextId + 1
                 /\ nextRand' = nextRand + 1
                 /\ last' = [req EXCEPT !.ran = TRUE, !.id = nextId,
                        !.mail = IF mailOk THEN "sent" ELSE "failed",
                        !.issued = generateToken(nextId),
                        !.res = <<tokenResponse(generateToken(nextId), registerResponse(mailOk))>>]
                 /\ UNCHANGED <<others, now>>

\* await user.save() of a new record: the unique index on email rejects a
\* second record with the same email
save(email) ==
    IF \E u \in DOMAIN users : users[u].email = email
    THEN DuplicateKey("email")
    ELSE NoError

\* POST /api/auth/register up to the answer of User.findOne({ email }):
\* request r is answered 400, or goes on to save its record
RegisterFind(r) ==
    \E email \in Emails, password \in Passwords :
        LET existingUser == findOneByEmail(email)
            req == [NoReq EXCEPT !.op = "register", !.email = email,
                                 !.password = password]
        IN  /\ pending[r].pc = "idle"
            /\ IF existingUser # 0
               THEN /\ last' = [req EXCEPT !.res =
                           <<Response(400, "User with this email already exists")>>]
                    /\ UNCHANGED pending
               ELSE /\ last' = [req EXCEPT !.op = "register-find"]
                    /\ pending' = [pending EXCEPT ![r] =
                           [Idle EXCEPT !.pc = "save", !.email = email,
                                        !.password = password]]
            /\ UNCHANGED <<users, nextId, nextRand, now, slot, hits, process>>

\* POST /api/auth/register from new User({...}) and user.save() to the end
RegisterSave(r) ==
    \E mailOk \in BOOLEAN :
        LET email == pending[r].email
            password == pending[r].password
            error == save(email)
            req == [NoReq EXCEPT !.op = "register", !.email = email,
                                 !.password = password]
        IN  /\ pending[r].pc = "save"
            /\ pending' = [pending EXCEPT ![r] = Idle]
            /\ IF error # NoError
               THEN /\ last' = [req EXCEPT !.res = <<errorHandler(error)>>]
                    /\ UNCHANGED <<users, nextId, nextRand>>
               ELSE /\ nextId <= MaxUsers
                    /\ nextRand <= MaxRand
                    /\ users' = users @@
                           (nextId :> NewUser(email, password,
                                              generateEmailVerificationToken, NoBody))
                    /\ nextId' = nextId + 1
                    /\ nextRand' = nextRand + 1
                    /\ last' = [req EXCEPT !.ran = TRUE, !.id = nextId,
                           !.mail = IF mailOk THEN "sent" ELSE "failed",
                           !.issued = generateToken(nextId),
                           !.res = <<tokenResponse(generateToken(nextId), registerResponse(mailOk))>>]
            /\ UNCHANGED <<now, slot, hits, process>>

\* the login handler without the isActive check
loginHandlerNoActiveCheck(req) ==
    LET user == findOneByEmail(req.email)
    IN  IF user = 0
        THEN [req EXCEPT !.res = <<Response(401, "Invalid email or password")>>]
        ELSE IF comparePassword(users[user], req.password) # "match"
        THEN [req EXCEPT !.res = <<Response(401, "Invalid email or password")>>]
        ELSE [req EXCEPT !.ran = TRUE, !.id = user,
                         !.issued = generateToken(user),
                         !.res = <<tokenResponse(generateToken(user),
                                       Response(200, "Login successful"))>>]

\* a login handler that tells a caller that the email has no record
loginHandlerRevealing(req) ==
    LET user == findOneByEmail(req.email)
    IN  IF user = 0
        THEN [req EXCEPT !.res = <<Response(404, "User not found")>>]
        ELSE IF comparePassword(users[user], req.password) # "match"
        THEN [req EXCEPT !.res = <<Response(401, "Invalid email or password")>>]
        ELSE IF ~users[user].isActive
        THEN [req EXCEPT !.res = <<Response(401, "Account is deactivated")>>]
        ELSE [req EXCEPT !.ran = TRUE, !.id = user,
                         !.issued = generateToken(user),
                         !.res = <<tokenResponse(generateToken(user),
                                       Response(200, "Login successful"))>>]

\* the handler of POST /api/auth/login: the request with its outcome
loginHandler(req) ==
    LET user == findOneByEmail(req.email)
    IN  IF user = 0
        THEN [req EXCEPT !.res = <<Response(401, "Invalid email or password")>>]
        ELSE IF comparePassword(users[user], req.password) # "match"
        THEN [req EXCEPT !.res = <<Response(401, "Invalid email or password")>>]
        ELSE IF ~users[user].isActive
        THEN [req EXCEPT !.res = <<Response(401, "Account is deactivated")>>]
        ELSE [req EXCEPT !.ran = TRUE, !.id = user,
                         !.issued = generateToken(user),
                         !.res = <<tokenResponse(generateToken(user),
                                       Response(200, "Login successful"))>>]

\* POST /api/auth/login
Login ==
    \E email \in Emails, password \in Passwords :
        /\ last' = loginHandler([NoReq EXCEPT !.op = "login", !.email = email,
                                              !.password = password])
        /\ UNCHANGED <<others, users, nextId, nextRand, now>>

\* POST /api/auth/login from an origin that sends several requests: the
\* limiter of /api/, then authLimiter, then the handler.  Login above is
\* the first request of an origin of its own, which both limiters pass.
LoginFrom ==
    \E origin \in Origins, email \in Emails, password \in Passwords :
        LET api == limiter(origin)
            auth == authLimiter(origin)
            req == [NoReq EXCEPT !.op = "login", !.origin = origin,
                                 !.email = email, !.password = password]
        IN  /\ api.store[origin].totalHits <= MaxHits
            /\ IF api.limited
               THEN /\ hits' = [hits EXCEPT !["limiter"] = api.store]
                    /\ last' = [req EXCEPT !.res = api.res]
               ELSE /\ hits' = [hits EXCEPT !["limiter"] = api.store,
                                            !["authLimiter"] = auth.store]
                    /\ last' = IF auth.limited
                               THEN [req EXCEPT !.res = auth.res]
                               ELSE loginHandler(req)
            /\ UNCHANGED <<users, nextId, nextRand, now, slot, pending, process>>

\* the serverless handler's request after await connectDB(), whose throw
\* the handler ignores
Connected == [Idle EXCEPT !.pc = "app", !.op = "handler"]

\* handler(req, res) from its call of connectDB() up to connectDB's return,
\* its throw or its await of mongoose.connect
connectDB(r) ==
    LET req == [NoReq EXCEPT !.op = "connectDB", !.id = r]
    IN  /\ pending[r].pc = "idle"
        /\ IF db.readyState = 1
           THEN /\ last' = [req EXCEPT !.ran = TRUE]
                /\ pending' = [pending EXCEPT ![r] = Connected]
                /\ UNCHANGED db
           ELSE IF db.isConnecting
           THEN /\ last' = [req EXCEPT !.ran = TRUE]
                /\ pending' = [pending EXCEPT ![r] = Connected]
                /\ UNCHANGED db
           ELSE IF ~env.MONGODB_URI
           THEN /\ last' = [req EXCEPT !.res =
                       <<Response(500, "MONGODB_URI is not defined")>>]
                /\ pending' = [pending EXCEPT ![r] = Connected]
                /\ UNCHANGED db
           ELSE /\ db' = [readyState |-> 2, isConnecting |-> TRUE]
                /\ pending' = [pending EXCEPT ![r] =
                       [Idle EXCEPT !.pc = "connect", !.op = "connectDB"]]
                /\ last' = [req EXCEPT !.op = "connect"]
        /\ UNCHANGED <<users, nextId, nextRand, now, slot, hits, env>>

\* connectDB() from the end of mongoose.connect(uri), which connected or
\* threw, through finally to its return or throw
connectDBSettled(r) ==
    \E connected \in BOOLEAN :
        LET req == [NoReq EXCEPT !.op = "connectDB", !.id = r]
        IN  /\ pending[r].pc = "connect"
            /\ pending[r].op = "connectDB"
            /\ db' = [readyState |-> IF connected THEN 1 ELSE 0,
                      isConnecting |-> FALSE]
            /\ last' = IF connected
                       THEN [req EXCEPT !.ran = TRUE]
                       ELSE [req EXCEPT !.res = <<Response(500, "connection failed")>>]
            /\ pending' = [pending EXCEPT ![r] = Connected]
            /\ UNCHANGED <<users, nextId, nextRand, now, slot, hits, env>>

\* handler(req, res) after connectDB: the root response of its own, or the
\* app's GET /health, which reports the state of the connection
handlerApp(r) ==
    \E url \in {"/", "/health"} :
        /\ pending[r].pc = "app"
        /\ pending[r].op = "handler"
        /\ last' = [NoReq EXCEPT !.op = "handler", !.id = r, !.ran = TRUE,
                  !.res = IF url = "/"
                          THEN <<Response(200, "MelikShop API")>>
                          ELSE <<Response(200, IF db.readyState = 1
                                               THEN "connected"
                                               ELSE "disconnected")>>]
        /\ pending' = [pending EXCEPT ![r] = Idle]
        /\ UNCHANGED <<users, nextId, nextRand, now, slot, hits, process>>

\* the connection is lost: mongoose.connection.readyState leaves 1
Disconnected ==
    /\ db.readyState = 1
    /\ db' = [db EXCEPT !.readyState = 0]
    /\ last' = [NoReq EXCEPT !.op = "disconnected"]
    /\ UNCHANGED <<users, nextId, nextRand, now, slot, hits, pending, env>>

\* POST /api/auth/login up to the point where authLimiter has the count of
\* store.increment(key) in hand: the limiter of /api/ has passed the request
\* (a new request takes the lowest free slot: slots have no identity)
LoginCount(r) ==
    \E origin \in Callers :
        LET api == limiter(origin)
            auth == authLimiter(origin)
        IN  /\ pending[r].pc = "idle"
            /\ \A q \in Requests : q < r => pending[q].pc # "idle"
            /\ api.store[origin].totalHits <= MaxHits
            /\ ~api.limited
            /\ hits' = [hits EXCEPT !["limiter"] = api.store,
                                    !["authLimiter"] = auth.store]
            /\ pending' = [pending EXCEPT ![r] =
                   [Idle EXCEPT !.pc = "counted", !.op = "login", !.origin = origin,
                                !.totalHits = auth.store[origin].totalHits,
                                !.resetTime = auth.store[origin].resetTime]]
            /\ last' = [NoReq EXCEPT !.op = "count", !.origin = origin]
            /\ UNCHANGED <<users, nextId, nextRand, now, slot, process>>

\* POST /api/auth/login from authLimiter's comparison of the count it was
\* handed with max to the end
LoginDecide(r) ==
    \E email \in {"admin@x.com"}, password \in Passwords :
        LET req == [NoReq EXCEPT !.op = "login", !.origin = pending[r].origin,
                                 !.email = email, !.password = password]
        IN  /\ pending[r].pc = "counted"
            /\ last' = IF pending[r].totalHits > AuthMax
                       THEN [req EXCEPT !.res = authLimiter(pending[r].origin).res]
                       ELSE loginHandler(req)
            /\ pending' = [pending EXCEPT ![r] = Idle]
            /\ UNCHANGED <<users, nextId, nextRand, now, slot, hits, process>>

\* User.findOne({ emailVerificationToken: token })
findOneByVerificationToken(token) ==
    IF \E u \in DOMAIN users : users[u].emailVerificationToken = token
    THEN CHOOSE u \in DOMAIN users : users[u].emailVerificationToken = token
    ELSE 0

\* a verification that leaves the token in place
verifySaveKeepToken(doc) == [doc EXCEPT !.isEmailVerified = TRUE]

\* user.isEmailVerified = true; user.emailVerificationToken = undefined;
\* await user.save()
verifySave(doc) ==
    [doc EXCEPT !.isEmailVerified = TRUE, !.emailVerificationToken = 0]

\* POST /api/auth/verify-email
VerifyEmail ==
    \E token \in 1..MaxRand :
        LET user == findOneByVerificationToken(token)
            req == [NoReq EXCEPT !.op = "verify-email", !.actionToken = token]
        IN  IF user = 0
            THEN /\ last' = [req EXCEPT !.res =
                        <<Response(400, "Invalid or expired verification token")>>]
                 /\ UNCHANGED <<others, users, nextId, nextRand, now>>
            ELSE /\ users' = [users EXCEPT ![user] = verifySave(@)]
                 /\ last' = [req EXCEPT !.ran = TRUE, !.id = user,
                        !.res = <<Response(200, "Email verified successfully")>>]
                 /\ UNCHANGED <<others, nextId, nextRand, now>>

\* a forgot-password that stores the token and leaves the expiry for later
forgotSaveTokenOnly(doc, resetToken) ==
    [doc EXCEPT !.passwordResetToken = resetToken]

\* user.passwordResetToken = resetToken; user.passwordResetExpires =
\* new Date(Date.now() + 3600000); await user.save()
forgotSave(doc, resetToken) ==
    [doc EXCEPT !.passwordResetToken = resetToken,
                !.passwordResetExpires = now + ResetTTL]

\* the handler of POST /api/auth/forgot-password for a request of origin
forgotPasswordHandler(origin, email, mailOk) ==
    LET user == findOneByEmail(email)
        req == [NoReq EXCEPT !.op = "forgot-password", !.email = email,
                             !.origin = origin]
    IN  IF user = 0
        THEN /\ last' = [req EXCEPT !.res = <<Response(404, "User not found")>>]
             /\ UNCHANGED <<users, nextId, nextRand, now>>
        ELSE /\ nextRand <= MaxRand
             /\ users' = [users EXCEPT
                    ![user] = forgotSave(@, generatePasswordResetToken)]
             /\ nextRand' = nextRand + 1
             /\ last' = [req EXCEPT !.ran = TRUE, !.id = user,
                    !.actionToken = generatePasswordResetToken,
                    !.mail = IF mailOk THEN "sent" ELSE "failed",
                    !.res = IF mailOk
                            THEN <<Response(200, "Password reset email sent successfully")>>
                            ELSE <<Response(500, "Failed to send password reset email")>>]
             /\ UNCHANGED <<nextId, now>>

\* POST /api/auth/forgot-password
ForgotPassword ==
    \E email \in Emails, mailOk \in BOOLEAN :
        /\ forgotPasswordHandler("", email, mailOk)
        /\ UNCHANGED others

\* a request of origin to a route of /api/auth that only the limiter of
\* /api/ guards: counted, and answered 429 over the ceiling, else handled
ApiGuarded(origin, op, handler) ==
    LET api == limiter(origin)
    IN  /\ api.store[origin].totalHits <= MaxHits
        /\ hits' = [hits EXCEPT !["limiter"] = api.store]
        /\ UNCHANGED <<slot, pending, process>>
        /\ IF api.limited
           THEN /\ last' = [NoReq EXCEPT !.op = op, !.origin = origin, !.res = api.res]
                /\ UNCHANGED <<users, nextId, nextRand, now>>
           ELSE handler

\* POST /api/auth/forgot-password from an origin that sends several requests
ForgotPasswordFrom ==
    \E origin \in Callers, email \in Emails, mailOk \in BOOLEAN :
        ApiGuarded(origin, "forgot-password",
                   forgotPasswordHandler(origin, email, mailOk))

\* User.findOne({ passwordResetToken: token, passwordResetExpires: { $gt: Date.now() } })
findOneByResetToken(token) ==
    LET hit(u) == /\ users[u].passwordResetToken = token
                  /\ users[u].passwordResetExpires > now
    IN  IF \E u \in DOMAIN users : hit(u)
        THEN CHOOSE u \in DOMAIN users : hit(u)
        ELSE 0

\* a reset that replaces the password and leaves the token in place
resetSaveKeepToken(doc, password) ==
    [doc EXCEPT !.password = hashPassword(password)]

\* user.password = password; user.passwordResetToken = undefined;
\* user.passwordResetExpires = undefined; await user.save()
resetSave(doc, password) ==
    [doc EXCEPT !.password = hashPassword(password),
                !.passwordResetToken = 0,
                !.passwordResetExpires = 0]

\* the handler of POST /api/auth/reset-password for a request of origin
resetPasswordHandler(origin, token, password) ==
    LET user == findOneByResetToken(token)
        req == [NoReq EXCEPT !.op = "reset-password", !.actionToken = token,
                             !.password = password, !.origin = origin]
    IN  IF user = 0
        THEN /\ last' = [req EXCEPT !.res =
                    <<Response(400, "Invalid or expired reset token")>>]
             /\ UNCHANGED <<users, nextId, nextRand, now>>
        ELSE /\ users' = [users EXCEPT ![user] = resetSave(@, password)]
             /\ last' = [req EXCEPT !.ran = TRUE, !.id = user,
                    !.res = <<Response(200, "Password reset successfully")>>]
             /\ UNCHANGED <<nextId, nextRand, now>>

\* POST /api/auth/reset-password
ResetPassword ==
    \E token \in 1..MaxRand, password \in Passwords :
        /\ resetPasswordHandler("", token, password)
        /\ UNCHANGED others

\* POST /api/auth/reset-password from an origin that sends several requests
ResetPasswordFrom ==
    \E origin \in Callers, token \in 1..MaxRand, password \in Passwords :
        ApiGuarded(origin, "reset-password",
                   resetPasswordHandler(origin, token, password))

\* POST /api/auth/forgot-password up to the end of user.save()
ForgotSave(r) ==
    \E email \in Emails :
        LET user == findOneByEmail(email)
            req == [NoReq EXCEPT !.op = "forgot-password", !.email = email]
        IN  /\ pending[r].pc = "idle"
            /\ IF user = 0
               THEN /\ last' = [req EXCEPT !.res = <<Response(404, "User not found")>>]
                    /\ UNCHANGED <<users, nextRand, pending>>
               ELSE /\ nextRand <= MaxRand
                    /\ users' = [users EXCEPT
                           ![user] = forgotSave(@, generatePasswordResetToken)]
                    /\ nextRand' = nextRand + 1
                    /\ pending' = [pending EXCEPT ![r] =
                           [Idle EXCEPT !.pc = "mail", !.op = "forgot-password",
                                        !.email = email, !.id = user,
                                        !.actionToken = generatePasswordResetToken]]
                    /\ last' = [req EXCEPT !.op = "save", !.id = user]
            /\ UNCHANGED <<nextId, now, slot, hits, process>>

\* POST /api/auth/forgot-password from emailService.sendPasswordResetEmail
\* to the end
ForgotMail(r) ==
    \E mailOk \in BOOLEAN :
        /\ pending[r].pc = "mail"
        /\ pending[r].op = "forgot-password"
        /\ last' = [NoReq EXCEPT !.op = "forgot-password", !.email = pending[r].email,
                  !.ran = TRUE, !.id = pending[r].id,
                  !.actionToken = pending[r].actionToken,
                  !.mail = IF mailOk THEN "sent" ELSE "failed",
                  !.res = IF mailOk
                          THEN <<Response(200, "Password reset email sent successfully")>>
                          ELSE <<Response(500, "Failed to send password reset email")>>]
        /\ pending' = [pending EXCEPT ![r] = Idle]
        /\ UNCHANGED <<users, nextId, nextRand, now, slot, hits, process>>

\* POST /api/auth/reset-password up to the end of User.findOne
ResetFind(r) ==
    \E token \in 1..MaxRand, password \in Passwords :
        LET user == findOneByResetToken(token)
            req == [NoReq EXCEPT !.op = "reset-password", !.actionToken = token,
                                 !.password = password]
        IN  /\ pending[r].pc = "idle"
            /\ IF user = 0
               THEN /\ last' = [req EXCEPT !.res =
                           <<Response(400, "Invalid or expired reset token")>>]
                    /\ UNCHANGED pending
               ELSE /\ pending' = [pending EXCEPT ![r] =
                           [Idle EXCEPT !.pc = "save", !.op = "reset-password",
                                        !.actionToken = token, !.password = password,
                                        !.id = user]]
                    /\ last' = [req EXCEPT !.op = "find", !.id = user]
            /\ UNCHANGED <<users, nextId, nextRand, now, slot, hits, process>>

\* POST /api/auth/reset-password from user.password = password to the end:
\* save() writes the three modified paths of the document that findOne
\* returned to the record of its _id, whatever the record holds by now
ResetSave(r) ==
    LET user == pending[r].id
        req == [NoReq EXCEPT !.op = "reset-password",
                             !.actionToken = pending[r].actionToken,
                             !.password = pending[r].password]
    IN  /\ pending[r].pc = "save"
        /\ pending[r].op = "reset-password"
        /\ user \in DOMAIN users
        /\ users' = [users EXCEPT ![user] = resetSave(@, pending[r].password)]
        /\ last' = [req EXCEPT !.ran = TRUE, !.id = user,
               !.res = <<Response(200, "Password reset successfully")>>]
        /\ pending' = [pending EXCEPT ![r] = Idle]
        /\ UNCHANGED <<nextId, nextRand, now, slot, hits, process>>

\* PUT /api/auth/profile
UpdateProfile ==
    \E token \in Sessions, body \in ExtraBodies :
        LET auth == authMiddleware(NewReq(token))
            updates == validateBody(body)
            req == [NoReq EXCEPT !.op = "profile", !.token = token, !.body = body,
                                 !.user = auth.user.id]
        IN  IF ~auth.next
            THEN /\ last' = [req EXCEPT !.res = auth.res]
                 /\ UNCHANGED <<others, users, nextId, nextRand, now>>
            ELSE /\ users' = [users EXCEPT ![auth.user.id] = applyUpdates(@, updates)]
                 /\ last' = [req EXCEPT !.ran = TRUE, !.id = auth.user.id,
                        !.res = <<Response(200, "Profile updated successfully")>>]
                 /\ UNCHANGED <<others, nextId, nextRand, now>>

\* PUT /api/auth/change-password
ChangePassword ==
    \E token \in Sessions, currentPassword \in Passwords, newPassword \in Passwords :
        LET auth == authMiddleware(NewReq(token))
            user == auth.user
            req == [NoReq EXCEPT !.op = "change-password", !.token = token,
                                 !.password = currentPassword,
                                 !.newPassword = newPassword, !.user = user.id]
            isCurrentPasswordValid == comparePassword(user.doc, currentPassword)
        IN  IF ~auth.next
            THEN /\ last' = [req EXCEPT !.res = auth.res]
                 /\ UNCHANGED <<others, users, nextId, nextRand, now>>
            ELSE IF isCurrentPasswordValid = "throw"
            THEN /\ last' = [req EXCEPT !.ran = TRUE, !.id = user.id,
                        !.res = <<Response(500, "Illegal arguments: string, undefined")>>]
                 /\ UNCHANGED <<others, users, nextId, nextRand, now>>
            ELSE IF isCurrentPasswordValid = "mismatch"
            THEN /\ last' = [req EXCEPT !.ran = TRUE, !.id = user.id,
                        !.res = <<Response(400, "Current password is incorrect")>>]
                 /\ UNCHANGED <<others, users, nextId, nextRand, now>>
            ELSE /\ users' = [users EXCEPT ![user.id].password = hashPassword(newPassword)]
                 /\ last' = [req EXCEPT !.ran = TRUE, !.id = user.id,
                        !.res = <<Response(200, "Password changed successfully")>>]
                 /\ UNCHANGED <<others, nextId, nextRand, now>>

\* POST /api/auth/resend-verification
ResendVerification ==
    \E token \in Sessions, mailOk \in BOOLEAN :
        LET auth == authMiddleware(NewReq(token))
            user == auth.user
            req == [NoReq EXCEPT !.op = "resend-verification", !.token = token,
                                 !.user = user.id]
        IN  IF ~auth.next
            THEN /\ last' = [req EXCEPT !.res = auth.res]
                 /\ UNCHANGED <<others, users, nextId, nextRand, now>>
            ELSE IF user.doc.isEmailVerified
            THEN /\ last' = [req EXCEPT !.ran = TRUE, !.id = user.id,
                        !.res = <<Response(400, "Email is already verified")>>]
                 /\ UNCHANGED <<others, users, nextId, nextRand, now>>
            ELSE /\ nextRand <= MaxRand
                 /\ users' = [users EXCEPT ![user.id].emailVerificationToken =
                                               generateEmailVerificationToken]
                 /\ nextRand' = nextRand + 1
                 /\ last' = [req EXCEPT !.ran = TRUE, !.id = user.id,
                        !.actionToken = generateEmailVerificationToken,
                        !.res = IF mailOk
                                THEN <<Response(200, "Verification email sent successfully")>>
                                ELSE <<Response(500, "Failed to send verification email")>>]
                 /\ UNCHANGED <<others, nextId, now>>

\* POST /api/auth/resend-verification up to the end of authMiddleware, whose
\* User.findById read the record that req.user holds from then on
ResendAuth(r) ==
    \E token \in Sessions :
        LET auth == authMiddleware(NewReq(token))
        IN  /\ pending[r].pc = "idle"
            /\ IF ~auth.next
               THEN /\ last' = [NoReq EXCEPT !.op = "resend-verification",
                                             !.token = token, !.user = auth.user.id,
                                             !.res = auth.res]
                    /\ UNCHANGED pending
               ELSE /\ pending' = [pending EXCEPT ![r] =
                           [Idle EXCEPT !.pc = "handler", !.op = "resend-verification",
                                        !.token = token, !.user = auth.user]]
                    /\ last' = [NoReq EXCEPT !.op = "auth", !.token = token,
                                             !.user = auth.user.id]
            /\ UNCHANGED <<users, nextId, nextRand, now, slot, hits, process>>

\* POST /api/auth/resend-verification from the handler's check of
\* req.user.isEmailVerified to the end: save() writes the one modified path,
\* emailVerificationToken, to the record of req.user's _id
ResendSave(r) ==
    \E mailOk \in BOOLEAN :
        LET user == pending[r].user
            req == [NoReq EXCEPT !.op = "resend-verification",
                                 !.token = pending[r].token, !.user = user.id]
        IN  /\ pending[r].pc = "handler"
            /\ pending[r].op = "resend-verification"
            /\ user.id \in DOMAIN users
            /\ pending' = [pending EXCEPT ![r] = Idle]
            /\ IF user.doc.isEmailVerified
               THEN /\ last' = [req EXCEPT !.ran = TRUE, !.id = user.id,
                           !.res = <<Response(400, "Email is already verified")>>]
                    /\ UNCHANGED <<users, nextRand>>
               ELSE /\ nextRand <= MaxRand
                    /\ users' = [users EXCEPT ![user.id].emailVerificationToken =
                                                  generateEmailVerificationToken]
                    /\ nextRand' = nextRand + 1
                    /\ last' = [req EXCEPT !.ran = TRUE, !.id = user.id,
                           !.actionToken = generateEmailVerificationToken,
                           !.res = IF mailOk
                                   THEN <<Response(200, "Verification email sent successfully")>>
                                   ELSE <<Response(500, "Failed to send verification email")>>]
            /\ UNCHANGED <<nextId, now, slot, hits, process>>

\* a logout handler that deactivates the record of the caller
logoutHandlerRevoking(store, id) == [store EXCEPT ![id].isActive = FALSE]

\* the handler of POST /api/auth/logout, which only answers: the collection
\* after it
logoutHandler(store, id) == store

\* POST /api/auth/logout
Logout ==
    \E token \in Bearers :
        LET auth == authMiddleware(NewReq(token))
            req == [NoReq EXCEPT !.op = "logout", !.token = token,
                                 !.user = auth.user.id]
        IN  IF ~auth.next
            THEN /\ last' = [req EXCEPT !.res = auth.res]
                 /\ UNCHANGED <<others, users, nextId, nextRand, now>>
            ELSE /\ users' = logoutHandler(users, auth.user.id)
                 /\ last' = [req EXCEPT !.ran = TRUE, !.id = auth.user.id,
                        !.res = <<Response(200, "Logged out successfully")>>]
                 /\ UNCHANGED <<others, nextId, nextRand, now>>

\* ------------------------------------------------ /api/users handlers
\* Bodies of PUT /api/users/:id, which no schema restricts: they set the
\* role or the status (AccessBodies), or the verification flag
AccessBodies ==
    {NoBody} \cup
    { [NoBody EXCEPT !.set = {"role"}, !.role = r] : r \in Roles } \cup
    { [NoBody EXCEPT !.set = {"isActive"}, !.isActive = b] : b \in BOOLEAN }

VerifiedBodies ==
    { [NoBody EXCEPT !.set = {"isEmailVerified"}, !.isEmailVerified = b] : b \in BOOLEAN }

\* GET /api/users
GetUsers ==
    \E token \in Bearers :
        LET guard == usersRouteGuard(token)
        IN  /\ last' = [NoReq EXCEPT !.op = "users", !.token = token,
                          !.user = guard.user.id, !.ran = guard.next,
                          !.res = IF guard.next
                                  THEN guard.res \o <<Response(200, "")>>
                                  ELSE guard.res]
            /\ UNCHANGED <<others, users, nextId, nextRand, now>>

\* GET /api/admin/dashboard/overview: adminMiddleware alone guards it
GetDashboard ==
    \E token \in Bearers :
        LET guard == adminMiddleware(NewReq(token))
        IN  /\ last' = [NoReq EXCEPT !.op = "dashboard", !.token = token,
                          !.user = guard.user.id, !.ran = guard.next,
                          !.res = IF guard.next
                                  THEN guard.res \o <<Response(200, "")>>
                                  ELSE guard.res]
            /\ UNCHANGED <<others, users, nextId, nextRand, now>>

\* PUT /api/users/:id with a body among bodies.  The handler deletes
\* password and the three token fields from the top level of the body and
\* hands the rest to findByIdAndUpdate.
PutUser(bodies) ==
    \E token \in Sessions, id \in 1..MaxUsers, body \in bodies :
        LET guard == usersRouteGuard(token)
            user == findById(id)
            req == [NoReq EXCEPT !.op = "update-user", !.token = token, !.id = id,
                                 !.body = body, !.user = guard.user.id]
        IN  IF ~guard.next
            THEN /\ last' = [req EXCEPT !.res = guard.res]
                 /\ UNCHANGED <<others, users, nextId, nextRand, now>>
            ELSE IF user = 0
            THEN /\ last' = [req EXCEPT !.ran = TRUE,
                        !.res = guard.res \o <<Response(404, "User not found")>>]
                 /\ UNCHANGED <<others, users, nextId, nextRand, now>>
            ELSE /\ users' = [users EXCEPT ![id] =
                                   findByIdAndUpdate(@, deleteSensitive(body))]
                 /\ last' = [req EXCEPT !.ran = TRUE,
                        !.res = guard.res \o <<Response(200, "User updated successfully")>>]
                 /\ UNCHANGED <<others, nextId, nextRand, now>>

UpdateUser == PutUser(AccessBodies)

UpdateUserVerified == PutUser(VerifiedBodies)

\* a reset token no forgot-password request issued
ChosenToken == MaxRand + 1

\* Bodies of PUT /api/users/:id that name the reset token fields: at the
\* top level, or within the update operators $set and $unset
TokenBodies ==
    {[NoBody EXCEPT !.set = {"passwordResetToken"}, !.passwordResetToken = ChosenToken],
     [NoBody EXCEPT !.operators = {<<"$set", "passwordResetToken">>},
                    !.passwordResetToken = ChosenToken],
     [NoBody EXCEPT !.operators = {<<"$unset", "passwordResetExpires">>}]}

UpdateUserTokens == PutUser(TokenBodies)

\* DELETE /api/users/:id
DeleteUser ==
    \E token \in Sessions, id \in 1..MaxUsers :
        LET guard == usersRouteGuard(token)
            user == findById(id)
            req == [NoReq EXCEPT !.op = "delete-user", !.token = token, !.id = id,
                                 !.user = guard.user.id]
        IN  IF ~guard.next
            THEN /\ last' = [req EXCEPT !.res = guard.res]
                 /\ UNCHANGED <<others, users, nextId, nextRand, now>>
            ELSE IF user = 0
            THEN /\ last' = [req EXCEPT !.ran = TRUE,
                        !.res = guard.res \o <<Response(404, "User not found")>>]
                 /\ UNCHANGED <<others, users, nextId, nextRand, now>>
            ELSE IF users[user].role = "admin"
            THEN /\ last' = [req EXCEPT !.ran = TRUE,
                        !.res = guard.res \o <<Response(403, "Cannot delete admin users")>>]
                 /\ UNCHANGED <<others, users, nextId, nextRand, now>>
            ELSE /\ users' = [u \in DOMAIN users \ {id} |-> users[u]]
                 /\ last' = [req EXCEPT !.ran = TRUE,
                        !.res = guard.res \o <<Response(200, "User deleted successfully")>>]
                 /\ UNCHANGED <<others, nextId, nextRand, now>>

\* PATCH /api/users/:id/toggle-status behind its guards: guard is what the
\* mount-level authMiddleware and the route's adminMiddleware left
toggleStatusRoute(token, id, guard) ==
    LET user == findById(id)
        req == [NoReq EXCEPT !.op = "toggle-status", !.token = token, !.id = id,
                             !.user = guard.user.id]
    IN  IF ~guard.next
        THEN /\ last' = [req EXCEPT !.res = guard.res]
             /\ UNCHANGED <<users, nextId, nextRand, now>>
        ELSE IF user = 0
        THEN /\ last' = [req EXCEPT !.ran = TRUE,
                    !.res = guard.res \o <<Response(404, "User not found")>>]
             /\ UNCHANGED <<users, nextId, nextRand, now>>
        ELSE IF users[user].role = "admin"
        THEN /\ last' = [req EXCEPT !.ran = TRUE,
                    !.res = guard.res \o <<Response(403, "Cannot deactivate admin users")>>]
             /\ UNCHANGED <<users, nextId, nextRand, now>>
        ELSE /\ users' = [users EXCEPT ![user].isActive = ~@]
             /\ last' = [req EXCEPT !.ran = TRUE,
                    !.res = guard.res \o
                        <<Response(200, IF ~users[user].isActive
                                        THEN "User activated successfully"
                                        ELSE "User deactivated successfully")>>]
             /\ UNCHANGED <<nextId, nextRand, now>>

\* PATCH /api/users/:id/toggle-status
ToggleStatus ==
    \E token \in Sessions, id \in 1..MaxUsers :
        /\ toggleStatusRoute(token, id, usersRouteGuard(token))
        /\ UNCHANGED others

\* PATCH /api/users/:id/toggle-status up to the end of the mount-level
\* authMiddleware of app.use('/api/users', authMiddleware, userRoutes)
ToggleMount(r) ==
    \E token \in Sessions, id \in 1..MaxUsers :
        LET mount == authMiddleware(NewReq(token))
        IN  /\ pending[r].pc = "idle"
            /\ IF ~mount.next
               THEN /\ last' = [NoReq EXCEPT !.op = "toggle-status", !.token = token,
                                             !.id = id, !.res = mount.res]
                    /\ UNCHANGED pending
               ELSE /\ pending' = [pending EXCEPT ![r] =
                            [Idle EXCEPT !.pc = "route", !.op = "toggle-status",
                                         !.token = token, !.id = id,
                                         !.user = mount.user]]
                    /\ last' = [NoReq EXCEPT !.op = "mount", !.token = token, !.id = id]
            /\ UNCHANGED <<users, nextId, nextRand, now, slot, hits, process>>

\* PATCH /api/users/:id/toggle-status from the route's adminMiddleware, which
\* authenticates again on the request the mount left, to the end
ToggleRoute(r) ==
    /\ pending[r].pc = "route"
    /\ pending[r].op = "toggle-status"
    /\ toggleStatusRoute(pending[r].token, pending[r].id,
            adminMiddleware([token |-> pending[r].token, user |-> pending[r].user]))
    /\ pending' = [pending EXCEPT ![r] = Idle]
    /\ UNCHANGED <<slot, hits, process>>

Next ==
    \/ Tick
    \/ GetMe
    \/ Register
    \/ Login
    \/ VerifyEmail
    \/ ForgotPassword
    \/ ResetPassword
    \/ UpdateProfile
    \/ ChangePassword
    \/ ResendVerification
    \/ GetUsers
    \/ GetDashboard
    \/ UpdateUser
    \/ UpdateUserVerified
    \/ DeleteUser
    \/ ToggleStatus
    \/ TickSlot
    \/ GetProducts
    \/ VerifyRefresh
    \/ LoginFrom
    \/ ForgotPasswordFrom
    \/ ResetPasswordFrom
    \/ \E r \in Requests : RegisterFind(r)
    \/ \E r \in Requests : RegisterSave(r)
    \/ Logout
    \/ UpdateUserTokens
    \/ Disconnected
    \/ \E r \in Requests :
          \/ ToggleMount(r) \/ ToggleRoute(r)
          \/ ResetFind(r) \/ ResetSave(r)
          \/ ForgotSave(r) \/ ForgotMail(r)
          \/ ResendAuth(r) \/ ResendSave(r)
          \/ LoginCount(r) \/ LoginDecide(r)
          \/ connectDB(r) \/ connectDBSettled(r) \/ handlerApp(r)

Spec == InitEnv /\ [][Next]_vars

\* Accounts are registered, deactivated and deleted; callers present
\* bearer tokens and log in
NextAccess ==
    \/ Tick
    \/ Register
    \/ Login
    \/ GetMe
    \/ DeleteUser
    \/ ToggleStatus

SpecAccess == Init /\ [][NextAccess]_vars

\* The admin-guarded routes, within one hour
NextAdmin ==
    \/ Register
    \/ GetUsers
    \/ GetDashboard
    \/ UpdateUser
    \/ DeleteUser
    \/ ToggleStatus

SpecAdmin == Init /\ [][NextAdmin]_vars

\* Sessions that log out, next to what ends a session: time, deactivation
\* and deletion
NextSession ==
    \/ Tick
    \/ Register
    \/ GetMe
    \/ Logout
    \/ DeleteUser
    \/ ToggleStatus

SpecSession == Init /\ [][NextSession]_vars

\* Register, login and an authenticated request in a process with or
\* without a signing secret
NextEnv ==
    \/ Register
    \/ Login
    \/ GetMe

SpecEnv == InitSecret /\ [][NextEnv]_vars

\* The serverless handler serving requests concurrently: each awaits
\* connectDB() before it hands the request to the app
NextConnect ==
    \/ \E r \in Requests : connectDB(r)
    \/ \E r \in Requests : connectDBSettled(r)
    \/ \E r \in Requests : handlerApp(r)
    \/ Disconnected

SpecConnect == InitEnv /\ [][NextConnect]_vars

\* Logins of one origin in flight between the count of authLimiter and
\* its decision
NextBurst ==
    \/ TickSlot
    \/ \E r \in Requests : LoginCount(r)
    \/ \E r \in Requests : LoginDecide(r)

SpecBurst == Init /\ [][NextBurst]_vars

\* Email verification with resend-verification requests in flight between
\* their authentication and their save
NextResend ==
    \/ Register
    \/ VerifyEmail
    \/ \E r \in Requests : ResendAuth(r)
    \/ \E r \in Requests : ResendSave(r)

SpecResend == Init /\ [][NextResend]_vars

\* forgot-password requests in flight between their save and the end of
\* their mail dispatch
NextForgot ==
    \/ Tick
    \/ Register
    \/ \E r \in Requests : ForgotSave(r)
    \/ \E r \in Requests : ForgotMail(r)

SpecForgot == Init /\ [][NextForgot]_vars

\* Password recovery next to the admin's update of a record
NextPair ==
    \/ Tick
    \/ ForgotPassword
    \/ ResetPassword
    \/ UpdateUserTokens

SpecPair == Init /\ [][NextPair]_vars

\* Password recovery with reset-password requests in flight between their
\* lookup and their save
NextReset ==
    \/ Tick
    \/ ForgotPassword
    \/ \E r \in Requests : ResetFind(r)
    \/ \E r \in Requests : ResetSave(r)

SpecReset == Init /\ [][NextReset]_vars

\* The admin guard with requests to /api/users in flight between the
\* mount-level authentication and the route's own
NextGuard ==
    \/ GetDashboard
    \/ UpdateUser
    \/ \E r \in Requests : ToggleMount(r)
    \/ \E r \in Requests : ToggleRoute(r)

SpecGuard == Init /\ [][NextGuard]_vars

\* The self-service flows of /api/auth
NextSelf ==
    \/ Tick
    \/ Register
    \/ Login
    \/ VerifyEmail
    \/ ForgotPassword
    \/ ResetPassword
    \/ UpdateProfile
    \/ ChangePassword
    \/ ResendVerification

SpecSelf == Init /\ [][NextSelf]_vars

\* Everything that writes isEmailVerified or emailVerificationToken
NextVerify ==
    \/ Register
    \/ Login
    \/ VerifyEmail
    \/ ResendVerification
    \/ UpdateProfile
    \/ UpdateUserVerified

SpecVerify == Init /\ [][NextVerify]_vars

\* Logins of two origins over the first minutes of the hour
NextThrottle ==
    \/ TickSlot
    \/ LoginFrom

SpecThrottle == Init /\ [][NextThrottle]_vars

\* Tokens presented where authentication is optional and where a refresh
\* token is expected, while accounts are registered, deactivated and deleted
NextTokens ==
    \/ Tick
    \/ Register
    \/ DeleteUser
    \/ ToggleStatus
    \/ GetProducts
    \/ VerifyRefresh

SpecTokens == Init /\ [][NextTokens]_vars

\* Register requests that run concurrently, and deletions by the admin
NextRace ==
    \/ \E r \in Requests : RegisterFind(r)
    \/ \E r \in Requests : RegisterSave(r)
    \/ DeleteUser

SpecRace == Init /\ [][NextRace]_vars

\* Recovery requests of one origin over the first minutes of the hour
NextRecovery ==
    \/ TickSlot
    \/ ForgotPasswordFrom
    \/ ResetPasswordFrom

SpecRecovery == Init /\ [][NextRecovery]_vars
\* ------------------------------------------------------------- claims
\* a bearer credential that is correctly signed and unexpired
Verifies(token) == token.kind = "jwt" /\ token.signed /\ now < token.exp

\* the account a credential names exists and is active
LiveSubject(token) ==
    /\ token.userId \in DOMAIN users
    /\ users[token.userId].isActive

\* C1: authMiddleware attaches the record and calls next exactly when the
\* token verifies, its subject exists and is active; otherwise it answers 401
\* with no identity and no next, and the 401 names the first check that
\* failed in the order token-present, verify, lookup, isActive.
C1_AuthDecision ==
    last.op = "me" =>
        LET token == last.token
        IN  /\ (Verifies(token) /\ LiveSubject(token)) =>
                  (last.user = token.userId /\ last.ran /\ Status(last) = 200)
            /\ ~(Verifies(token) /\ LiveSubject(token)) =>
                  (last.user = 0 /\ ~last.ran /\ Status(last) = 401 /\ Len(last.res) = 1)
            /\ token = NoToken => Message(last) = "Access denied. No token provided."
            /\ (token # NoToken /\ ~Verifies(token)) => Message(last) = "Invalid token."
            /\ (Verifies(token) /\ token.userId \notin DOMAIN users) =>
                  Message(last) = "Invalid token. User not found."
            /\ (Verifies(token) /\ token.userId \in DOMAIN users
                  /\ ~users[token.userId].isActive) =>
                  Message(last) = "Account is deactivated."

C1_Witness ==
    /\ last.op = "me"
    /\ last.ran
    /\ last.user = 2

\* a token generateRefreshToken issued at some hour
IssuedRefresh(token) ==
    \E u \in 1..MaxUsers, t \in 0..MaxTime :
        token = [generateRefreshToken(u) EXCEPT !.exp = t + RefreshTTL]

\* C2: a token issued by generateRefreshToken fails where an access token is
\* expected: verifyToken throws and authMiddleware attaches nothing.
C2_RefreshRejected ==
    (last.op = "me" /\ IssuedRefresh(last.token)) =>
        /\ verifyToken(last.token) = 0
        /\ last.user = 0
        /\ ~last.ran

\* requests that pass through authMiddleware
AuthOps == {"me", "delete-user", "toggle-status"}

\* C3: while a record is deactivated, every request bearing a valid token
\* for it is answered 401 and every login for it returns no token.
C3_DeactivatedRejected ==
    [][ /\ (last'.op \in AuthOps /\ Verifies(last'.token)
              /\ last'.token.userId \in DOMAIN users
              /\ ~users[last'.token.userId].isActive) =>
                (Status(last') = 401 /\ ~last'.ran /\ last'.user = 0)
        /\ (last'.op = "login"
              /\ \E u \in DOMAIN users :
                    users[u].email = last'.email /\ ~users[u].isActive) =>
                (last'.issued = NoToken /\ Status(last') = 401) ]_vars

C3_Witness ==
    /\ last.op = "login"
    /\ Message(last) = "Account is deactivated"
    /\ \E u \in DOMAIN users :
          /\ users[u].email = last.email
          /\ ~users[u].isActive
          /\ comparePassword(users[u], last.password) = "match"
\* requests to routes guarded by adminMiddleware
AdminOps == {"users", "dashboard", "update-user", "delete-user", "toggle-status"}

\* C4: behind adminMiddleware the handler runs only for a request whose
\* token resolves to an existing, active admin record; a request of an
\* active record with role user is answered 403 and the handler stays out.
C4_AdminOnly ==
    [][ last'.op \in AdminOps =>
          LET token == last'.token
          IN  /\ last'.ran =>
                    /\ Verifies(token) /\ LiveSubject(token)
                    /\ users[token.userId].role = "admin"
                    /\ last'.user = token.userId
              /\ (Verifies(token) /\ LiveSubject(token)
                    /\ users[token.userId].role = "user") =>
                    (Status(last') = 403 /\ ~last'.ran /\ Len(last'.res) = 1) ]_vars

C4_Witness ==
    /\ last.op = "users"
    /\ Status(last) = 403
    /\ last.user = 2
    /\ users[2].role = "user"
    /\ users[2].isActive

\* C5: no request deactivates, deletes or downgrades a record whose role
\* is admin.
C5_AdminProtected ==
    [][ \A u \in DOMAIN users :
          users[u].role = "admin" =>
            /\ u \in DOMAIN users'
            /\ users'[u].role = "admin"
            /\ users[u].isActive => users'[u].isActive ]_vars
ResetMatch(token) ==
    { u \in DOMAIN users :
        users[u].passwordResetToken = token /\ now < users[u].passwordResetExpires }

\* C7: reset-password succeeds exactly when the token equals a record's
\* passwordResetToken and now < passwordResetExpires; on success that
\* record's password is replaced and token and expiry are cleared, so that
\* the same token fails from then on; every failure is the same 400 and
\* changes no record.
C7_ResetSingleUse ==
    [][ last'.op = "reset-password" =>
          LET token == last'.actionToken
          IN  /\ Status(last') = 200 <=> ResetMatch(token) # {}
              /\ Status(last') = 200 =>
                    /\ last'.id \in ResetMatch(token)
                    /\ comparePassword(users'[last'.id], last'.password) = "match"
                    /\ users'[last'.id].passwordResetToken = 0
                    /\ users'[last'.id].passwordResetExpires = 0
                    /\ \A u \in DOMAIN users' : users'[u].passwordResetToken # token
                    /\ \A u \in DOMAIN users \ {last'.id} : users'[u] = users[u]
              /\ Status(last') # 200 =>
                    /\ Status(last') = 400
                    /\ Message(last') = "Invalid or expired reset token"
                    /\ users' = users
              /\ (last.op = "reset-password" /\ last.actionToken = token
                    /\ Status(last) = 200) => Status(last') = 400 ]_vars

C7_Witness ==
    /\ last.op = "reset-password"
    /\ Status(last) = 200
    /\ comparePassword(users[last.id], last.password) = "match"
    /\ users[last.id].passwordResetToken = 0

\* verify-email consumes a matching token, and a consumed token stays dead
VerifyConsumes ==
    /\ last'.op = "verify-email" =>
          LET token == last'.actionToken
              holders == { u \in DOMAIN users : users[u].emailVerificationToken = token }
          IN  /\ Status(last') = 200 <=> holders # {}
              /\ Status(last') = 200 =>
                    /\ last'.id \in holders
                    /\ users'[last'.id].isEmailVerified
                    /\ users'[last'.id].emailVerificationToken = 0
                    /\ \A u \in DOMAIN users' : users'[u].emailVerificationToken # token
              /\ Status(last') # 200 => (Status(last') = 400 /\ users' = users)
    /\ \A token \in 1..MaxRand :
          (token < nextRand
             /\ \A u \in DOMAIN users : users[u].emailVerificationToken # token) =>
                \A u \in DOMAIN users' : users'[u].emailVerificationToken # token

\* the step is a successful verify-email for record u
VerifiedByToken(u) ==
    /\ last'.op = "verify-email"
    /\ Status(last') = 200
    /\ last'.id = u

\* the step is an admin's PUT /api/users/u with isEmailVerified: true
VerifiedByAdmin(u) ==
    /\ last'.op = "update-user"
    /\ last'.ran
    /\ last'.id = u
    /\ last'.body.set = {"isEmailVerified"}
    /\ last'.body.isEmailVerified
    /\ last'.user \in DOMAIN users
    /\ users[last'.user].role = "admin"

C9_ChangePasswordSucceeds ==
    [][ (last'.op = "change-password" /\ last'.user # 0
           /\ comparePassword(users[last'.user], last'.password) = "match") =>
          /\ Status(last') = 200
          /\ comparePassword(users'[last'.user], last'.newPassword) = "match"
          /\ last'.newPassword # last'.password =>
                comparePassword(users'[last'.user], last'.password) = "mismatch" ]_vars

\* C10: change-password with a currentPassword that is not the stored
\* password answers 400 and leaves every record unchanged.
C10_WrongCurrentPassword ==
    [][ (last'.op = "change-password" /\ last'.user # 0
           /\ comparePassword(users[last'.user], last'.password) = "mismatch") =>
          /\ Status(last') = 400
          /\ users' = users ]_vars

\* the requests authLimiter has counted for origin in the window that is
\* running now: none once the window is over
Counted(origin) ==
    LET client == hits["authLimiter"][origin]
    IN  IF client.resetTime <= clock THEN 0 ELSE client.totalHits

\* a login with the stored password of an active account
CorrectLogin(l) ==
    \E u \in DOMAIN users :
        /\ users[u].email = l.email
        /\ users[u].isActive
        /\ comparePassword(users[u], l.password) = "match"

\* C11: the n-th login of an origin within a window of 15 minutes from
\* its first is answered 429 exactly when n > 10, whatever its credentials
\* and before any lookup; when the window is over the count restarts at
\* one, and a login under the ceiling with correct credentials of an
\* active account succeeds.
C11_LoginThrottle ==
    [][ (last'.op = "login" /\ last'.origin \in Origins) =>
          LET origin == last'.origin
              n == Counted(origin) + 1
              client == hits'["authLimiter"][origin]
          IN  /\ Status(last') = 429 <=> n > 10
              /\ Status(last') = 429 =>
                    (~last'.ran /\ last'.issued = NoToken /\ users' = users)
              /\ client.totalHits = n
              /\ client.resetTime =
                    IF n = 1 THEN clock + 3 ELSE hits["authLimiter"][origin].resetTime
              /\ (n <= 10 /\ CorrectLogin(last')) =>
                    (Status(last') = 200 /\ last'.issued # NoToken)
              /\ \A other \in Origins \ {origin} :
                    hits'["authLimiter"][other] = hits["authLimiter"][other] ]_vars

C11_Witness ==
    /\ last.op = "login"
    /\ last.origin = "ip1"
    /\ Status(last) = 429
    /\ CorrectLogin(last)
    /\ hits["authLimiter"]["ip1"].totalHits = 11

\* the requests the limiter of /api/ has counted for origin in the window
\* that is running now
CountedApi(origin) ==
    LET client == hits["limiter"][origin]
    IN  IF client.resetTime <= clock THEN 0 ELSE client.totalHits

\* C12: forgot-password and reset-password are behind the ceiling of 10 per
\* origin and window: a request to them that is at least the 11th of its
\* origin to these endpoints is answered 429 and reaches no record.
C12_RecoveryThrottled ==
    [][ (last'.op \in {"forgot-password", "reset-password"}
           /\ last'.origin \in Origins
           /\ CountedApi(last'.origin) >= 10) =>
          (Status(last') = 429 /\ ~last'.ran /\ users' = users) ]_vars

\* C13: a register request for an email without a record creates exactly
\* one record, unverified, active, of role user, holding the given password
\* and a verification token no record held before, and is answered 201
\* with an access token for it, also when the welcome mail fails.
C13_RegisterCreates ==
    [][ (last'.op = "register"
           /\ \A u \in DOMAIN users : users[u].email # last'.email) =>
          LET id == last'.id
              token == last'.issued
          IN  /\ DOMAIN users' = DOMAIN users \cup {id}
              /\ id \notin DOMAIN users
              /\ \A u \in DOMAIN users : users'[u] = users[u]
              /\ users'[id].email = last'.email
              /\ comparePassword(users'[id], last'.password) = "match"
              /\ ~users'[id].isEmailVerified
              /\ users'[id].isActive
              /\ users'[id].role = "user"
              /\ users'[id].emailVerificationToken # 0
              /\ \A u \in DOMAIN users :
                    /\ users[u].emailVerificationToken # users'[id].emailVerificationToken
                    /\ users[u].passwordResetToken # users'[id].emailVerificationToken
              /\ users'[id].passwordResetToken = 0
              /\ last'.res = <<Response(201,
                    "User registered successfully. Please check your email to verify your account.")>>
              /\ token.kind = "jwt" /\ token.signed /\ token.type = "none"
              /\ token.userId = id
              /\ token.exp = now + AccessTTL ]_vars

C13_Witness ==
    /\ last.op = "register"
    /\ last.mail = "failed"
    /\ Status(last) = 201
    /\ last.issued.userId = last.id
    /\ ~users[last.id].isEmailVerified
    /\ users[last.id].emailVerificationToken # 0

\* the answers that tell a caller that the email is taken
DuplicateAnswers ==
    {Response(400, "User with this email already exists"),
     Response(400, "email already exists")}

\* C14: a register request for an email that has a record is answered 400
\* and creates nothing; however register requests interleave, no two
\* records share an email, and the request that loses the race gets a 400
\* duplicate answer that no other write failure produces.
C14_UniqueEmail ==
    [][ /\ \A u, v \in DOMAIN users' :
              users'[u].email = users'[v].email => u = v
        /\ (last'.op = "register"
               /\ \E u \in DOMAIN users : users[u].email = last'.email) =>
              /\ users' = users
              /\ Status(last') = 400
              /\ Len(last'.res) = 1
              /\ last'.res[1] \in DuplicateAnswers
        /\ \A error \in Errors \ {DuplicateKey("email")} :
              errorHandler(error) \notin DuplicateAnswers ]_vars

C14_Witness ==
    /\ last.op = "register"
    /\ last.res = <<Response(400, "email already exists")>>
    /\ Cardinality({u \in DOMAIN users : users[u].email = last.email}) = 1

\* C15: the access token a successful registration returns resolves, at
\* authMiddleware, to the record that registration created: at once, and
\* later whenever it is unexpired and its subject exists and is active,
\* since an id is never given to another account.
C15_TokenResolves ==
    [][ /\ (last'.op = "register" /\ Status(last') = 201) =>
              /\ last'.id \notin DOMAIN users
              /\ (authMiddleware(NewReq(last.issued)).next)'
              /\ (authMiddleware(NewReq(last.issued)).user.id = last.id)'
              /\ (authMiddleware(NewReq(last.issued)).user.doc.email = last.email)'
              /\ (verifyToken(last.issued) = last.id)'
        /\ (last.op = "register" /\ Status(last) = 201
               /\ last'.op = "me" /\ last'.token = last.issued) =>
              (last'.ran /\ last'.user = last.id /\ Status(last') = 200)
        /\ (last'.op = "me" /\ last'.token.type = "none"
               /\ Verifies(last'.token) /\ LiveSubject(last'.token)) =>
              (last'.ran /\ last'.user = last'.token.userId)
        /\ \A u \in DOMAIN users \cap DOMAIN users' :
              users'[u].email = users[u].email
        /\ \A u \in DOMAIN users' \ DOMAIN users : u = nextId /\ nextId' > nextId
        /\ nextId' >= nextId
        /\ \A u \in DOMAIN users' : u < nextId' ]_vars

C15_Witness ==
    /\ last.op = "me"
    /\ last.ran
    /\ now = 1
    /\ last.token = [generateToken(2) EXCEPT !.exp = AccessTTL]
    /\ last.user = 2
    /\ users[2].email = "a@x.com"

\* a login whose email has no record
UnknownEmail(l) == \A u \in DOMAIN users : users[u].email # l.email

\* a login whose email has a record and whose password is not its password
WrongPassword(l) ==
    \E u \in DOMAIN users :
        /\ users[u].email = l.email
        /\ comparePassword(users[u], l.password) = "mismatch"

\* C16: a login for an email without a record and a login for an existing
\* email with a wrong password get the same status and the same message,
\* issue no token and change no record.
C16_LoginNoEnumeration ==
    [][ (last'.op = "login" /\ (UnknownEmail(last') \/ WrongPassword(last'))) =>
          /\ last'.res = <<Response(401, "Invalid email or password")>>
          /\ last'.issued = NoToken
          /\ last'.id = 0
          /\ users' = users ]_vars

C16_Witness ==
    /\ last.op = "login"
    /\ UnknownEmail(last)
    /\ Status(last) = 401
    /\ \E email \in Emails, password \in Passwords :
          LET other == [last EXCEPT !.email = email, !.password = password]
          IN  /\ WrongPassword(other)
              /\ loginHandler(other).res = last.res

\* a correctly signed bearer token that is past its expiry
Expired(token) == token.kind = "jwt" /\ token.signed /\ now >= token.exp

\* C17: an expired, correctly signed token gets an outcome of its own,
\* other than that of a malformed or wrongly signed token, from verifyToken
\* and in the 401 of authMiddleware.
C17_ExpiredDistinct ==
    (last.op = "me" /\ Expired(last.token)) =>
        /\ Status(last) = 401
        /\ last.res # authMiddleware(NewReq(Malformed)).res
        /\ last.res # authMiddleware(NewReq(Forged)).res
        /\ verifyTokenError(last.token) # verifyTokenError(Malformed)
        /\ verifyTokenError(last.token) # verifyTokenError(Forged)

\* C18: a correctly signed, unexpired token whose subject is not in the
\* store gets the response, status and message, of a request without a
\* token.
C18_DeletedLikeNoToken ==
    (last.op = "me" /\ Verifies(last.token)
       /\ last.token.userId \notin DOMAIN users) =>
        last.res = authMiddleware(NewReq(NoToken)).res

\* C19: optionalAuthMiddleware never rejects: whatever the token, it sends
\* no response and calls next exactly once, so the handler answers; the
\* request carries an identity afterwards exactly when the token verifies
\* and its subject exists and is active.
C19_OptionalNeverRejects ==
    last.op = "products" =>
        /\ last.ran
        /\ last.res = <<Response(200, "")>>
        /\ last.user # 0 <=> (Verifies(last.token) /\ LiveSubject(last.token))
        /\ last.user # 0 => last.user = last.token.userId

C19_Witness ==
    /\ last.op = "products"
    /\ Verifies(last.token)
    /\ last.token.userId \in DOMAIN users
    /\ ~users[last.token.userId].isActive
    /\ last.user = 0
    /\ Status(last) = 200

\* a token generateToken issued: signed, with no type in its payload
IssuedAccess(token) ==
    token.kind = "jwt" /\ token.signed /\ token.type = "none"

\* C20: verifyRefreshToken rejects every token that generateToken issued
\* and returns no subject for it.
C20_AccessNotRefresh ==
    (last.op = "verify-refresh" /\ IssuedAccess(last.token)) => last.user = 0

C20_Witness ==
    /\ last.op = "verify-refresh"
    /\ IssuedAccess(last.token)
    /\ Verifies(last.token)
    /\ LiveSubject(last.token)
    /\ verifyToken(last.token) = last.token.userId
    /\ last.user = 0
\* a response of one of the two authentications is among those attempted
AuthRejected(req) ==
    \E i \in 1..Len(req.res) :
        req.res[i].status = 401

\* the handler of toggle-status ran although the route's authentication
\* answered 401: the record was deactivated after the mount-level
\* authentication, whose req.user the role check then read
HandlerAfterReject ==
    /\ last.op = "toggle-status"
    /\ AuthRejected(last)
    /\ last.ran

\* C21: on a route behind adminMiddleware, a request that authentication
\* rejected gets exactly one response, the 401, no 403 or 500 is attempted
\* after it and the route handler does not run.
C21_RoleCheckAfterAuth ==
    (last.op \in AdminOps /\ AuthRejected(last)) =>
        /\ Len(last.res) = 1
        /\ ~last.ran

\* C22: a reset token grants one state change: of two concurrent
\* reset-password requests that carry the same token at most one succeeds,
\* so the request that finishes right after a successful reset with its own
\* token does not succeed and leaves the password alone.
C22_ResetOnce ==
    [][ \A r \in Requests :
          ( /\ pending[r].pc = "save"
            /\ pending[r].op = "reset-password"
            /\ pending'[r].pc = "idle"
            /\ last.op = "reset-password"
            /\ Status(last) = 200
            /\ last.actionToken = pending[r].actionToken ) =>
                /\ Status(last') # 200
                /\ users' = users ]_vars

\* a login request left the throttled stage in this step
Decided(r) == pending[r].pc = "counted" /\ pending'[r].pc = "idle"

\* a login request was counted in this step
Entered(r) == pending[r].pc = "idle" /\ pending'[r].pc = "counted"

C24_TokenIffExpiry ==
    \A u \in DOMAIN users :
        users[u].passwordResetToken # 0 <=> users[u].passwordResetExpires # 0

\* C25: a record whose email is verified holds no emailVerificationToken,
\* also when a resend-verification request was authenticated before a
\* verify-email request for the same record completed.
C25_NoTokenWhenVerified ==
    \A u \in DOMAIN users :
        users[u].isEmailVerified => users[u].emailVerificationToken = 0

\* C26: forgot-password for an existing email stores the reset token and
\* its expiry, one hour after issuance, in one save before the mail
\* dispatch starts; the dispatch changes no record, its failure fails the
\* request, and the record then still holds a token together with an expiry.
C26_CommitBeforeDispatch ==
    [][ \A r \in Requests :
          /\ (pending[r].pc = "idle" /\ pending'[r].pc = "mail") =>
                LET user == pending'[r].id
                IN  /\ users'[user].passwordResetToken = pending'[r].actionToken
                    /\ users'[user].passwordResetToken # 0
                    /\ users'[user].passwordResetExpires = now + 1
                    /\ pending'[r].mail = "none"
                    /\ \A q \in Requests : pending[q].actionToken # pending'[r].actionToken
          /\ (pending[r].pc = "mail" /\ pending'[r].pc = "idle") =>
                LET user == pending[r].id
                IN  /\ users' = users
                    /\ last'.mail \in {"sent", "failed"}
                    /\ last'.mail = "sent" <=> Status(last') = 200
                    /\ last'.mail = "failed" <=> Status(last') = 500
                    /\ users'[user].passwordResetToken # 0
                    /\ users'[user].passwordResetExpires # 0 ]_vars

\* the dispatch of a forgot-password request failed after an hour had
\* passed since its save: the request is answered 500 and the record holds
\* the request's token with its expiry
C26_Witness ==
    /\ last.op = "forgot-password"
    /\ last.mail = "failed"
    /\ Status(last) = 500
    /\ users[last.id].passwordResetToken = last.actionToken
    /\ users[last.id].passwordResetExpires = now

\* C27: whenever connectDB returns without throwing, the database
\* connection is established, also for a call made while the connection
\* attempt of another call is in progress.
C27_ReturnMeansConnected ==
    [][ (last'.op = "connectDB" /\ last'.ran) => db'.readyState = 1 ]_vars

\* the record a reset token opens after the step, if any
ResetMatchAfter(token) ==
    { u \in DOMAIN users' :
        users'[u].passwordResetToken = token /\ now' < users'[u].passwordResetExpires }

\* C28: one reset token is valid per account at a time: a forgot-password
\* request stores a token no record held, which replaces the one the record
\* held, so that from then on no other token opens the record; and
\* reset-password never succeeds with a token that a later forgot-password
\* has replaced on its record.
C28_OneResetToken ==
    [][ /\ (last'.op = "forgot-password" /\ last'.ran) =>
              LET user == last'.id
                  resetToken == last'.actionToken
              IN  /\ \A u \in DOMAIN users : users[u].passwordResetToken # resetToken
                  /\ users'[user].passwordResetToken = resetToken
                  /\ user \in ResetMatchAfter(resetToken)
                  /\ \A other \in (1..MaxRand) \ {resetToken} :
                        user \notin ResetMatchAfter(other)
        /\ (last'.op = "reset-password" /\ Status(last') = 200) =>
              users[last'.id].passwordResetToken \in {0, last'.actionToken} ]_vars

\* C29: register is all or nothing: a register request that is answered
\* with anything but 201 has created no record, also when issuing the
\* token fails after the save because no signing secret is configured.
C29_RegisterAllOrNothing ==
    [][ (last'.op = "register" /\ Status(last') # 201) => users' = users ]_vars

\* C30: logout changes no state: it is answered 200 exactly for a request
\* that authenticates, writes no record and revokes nothing, so the bearer
\* token that authenticated it authenticates afterwards as well, and the
\* next request with it to GET /api/auth/me succeeds.
C30_LogoutChangesNothing ==
    [][ /\ last'.op = "logout" =>
              /\ users' = users
              /\ UNCHANGED <<nextId, nextRand, now, others>>
              /\ Status(last') = 200 <=> authMiddleware(NewReq(last'.token)).next
              /\ Status(last') = 200 => (authMiddleware(NewReq(last.token)).next)'
        /\ (last.op = "logout" /\ Status(last) = 200
              /\ last'.op = "me" /\ last'.token = last.token) =>
                 Status(last') = 200 ]_vars

\* a registered account logged out and its token still authenticates
C30_Witness ==
    /\ last.op = "logout"
    /\ Status(last) = 200
    /\ last.user = 2
    /\ authMiddleware(NewReq(last.token)).next

====
